---------------------------- MODULE Spec2Model ----------------------------
(***************************************************************************)
(* A model of the RT JSON exporter of rt_export.py: export_mesh,           *)
(* export_action and export_skeleton with the helpers they call.           *)
(*                                                                         *)
(* Numbers.  Python floats are modelled in fixed point: the integer n      *)
(* stands for n * 1e-7, so 10 is 0.000001 (ACTION_PRECISION and one step   *)
(* of round(v, 6)) and 10000000 is 1.0.  The model has no -0.0: norm's     *)
(* canonicalisation of -0.0 is the identity on integers.  Binary floating  *)
(* point error is not modelled.                                            *)
(*                                                                         *)
(* Python dicts keep insertion order; where the order is visible in the    *)
(* output they are sequences of [key, value] entries in insertion order.   *)
(* Python list indices are 0-based, TLA+ sequences 1-based: index i of the *)
(* code is position i + 1 of the model.                                    *)
(***************************************************************************)
EXTENDS Integers, Sequences, FiniteSets, TLC

VARIABLES
    me,         \* the mesh object handed to export_mesh (bm and me of the code)
    meshEx,     \* what export_mesh returned or raised
    act,        \* the action handed to export_action: act.fcurves
    actEx,      \* what export_action returned or raised
    skeleton,   \* the armature handed to export_skeleton: skeleton.bones
    skelEx,     \* what export_skeleton returned
    op          \* the Export operator: its properties, the context, the
                \* position in execute, what it returned, the output file

vars == <<me, meshEx, act, actEx, skeleton, skelEx, op>>

None == "None"

One == 10 * 1000 * 1000

Min(S) == CHOOSE x \in S : \A y \in S : x <= y

Max(S) == CHOOSE x \in S : \A y \in S : x >= y

Abs(x) == IF x < 0 THEN -x ELSE x

Range(s) == {s[i] : i \in 1..Len(s)}

RECURSIVE SetToSeq(_)
SetToSeq(S) ==
    IF S = {} THEN <<>>
    ELSE LET x == Min(S) IN <<x>> \o SetToSeq(S \ {x})

RECURSIVE Flatten(_)
Flatten(ss) ==
    IF ss = <<>> THEN <<>> ELSE Head(ss) \o Flatten(Tail(ss))

(***************************************************************************)
(* norm: round(v, 6), then -0.0 becomes 0.0.  round() goes to the nearest  *)
(* multiple of 1e-6 and, on a tie, to the even one.                        *)
(***************************************************************************)
norm(v) ==
    LET q == v \div 10
        r == v % 10
    IN  IF r < 5 THEN 10 * q
        ELSE IF r > 5 THEN 10 * (q + 1)
        ELSE IF q % 2 = 0 THEN 10 * q ELSE 10 * (q + 1)

norm_list(vs) == [i \in 1..Len(vs) |-> norm(vs[i])]


(***************************************************************************)
(* Dict helpers.  A dict is a sequence of [key, val] entries in insertion  *)
(* order.  DictAppend is d[key].append(item) on a defaultdict(list).       *)
(***************************************************************************)
DictKeys(d) == {d[i].key : i \in 1..Len(d)}

DictGet(d, k) == LET i == CHOOSE j \in 1..Len(d) : d[j].key = k IN d[i].val

DictAppend(d, k, item) ==
    IF k \in DictKeys(d)
    THEN [i \in 1..Len(d) |->
            IF d[i].key = k THEN [key |-> k, val |-> Append(d[i].val, item)]
            ELSE d[i]]
    ELSE Append(d, [key |-> k, val |-> <<item>>])

(***************************************************************************)
(*                              export_mesh                                *)
(***************************************************************************)

\* triangulate: a face with fewer than 3 vertices raises ValueError.  Faces
\* with more than 3 are handed to bmesh.ops.triangulate, a host operation;
\* the model's faces have 2 or 3 vertices.
triangulate(faces) ==
    IF \E i \in 1..Len(faces) : Len(faces[i].verts) < 3
    THEN "ValueError: face len"
    ELSE "ok"

\* make_indexes: the first equal earlier record gives the index, else the
\* record is appended.  Records are compared whole (dict ==), map_idx included.
RECURSIVE make_indexes_loop(_, _, _, _)
make_indexes_loop(vs, k, verts, indxs) ==
    IF k > Len(vs) THEN [verts |-> verts, indxs |-> indxs]
    ELSE LET v == vs[k]
             found == {i \in 1..Len(verts) : verts[i] = v}
         IN  IF found # {}
             THEN make_indexes_loop(vs, k + 1, verts, Append(indxs, Min(found) - 1))
             ELSE make_indexes_loop(vs, k + 1, Append(verts, v),
                                    Append(indxs, Len(verts)))

make_indexes_off_by_one(vs) ==
    LET mi == make_indexes_loop(vs, 1, <<>>, <<>>)
    IN  [verts |-> mi.verts, indxs |-> [i \in 1..Len(vs) |-> mi.indxs[i] + 1]]

make_indexes_by_fields(vs) ==
    LET keys == [i \in 1..Len(vs) |-> [c |-> vs[i].c, n |-> vs[i].n, t |-> vs[i].t]]
        mi == make_indexes_loop(keys, 1, <<>>, <<>>)
        first(j) == Min({i \in 1..Len(vs) : mi.indxs[i] = j - 1})
    IN  [verts |-> [j \in 1..Len(mi.verts) |-> vs[first(j)]], indxs |-> mi.indxs]

make_indexes(vs) == make_indexes_loop(vs, 1, <<>>, <<>>)

\* The record appended to verts for one corner (vert, loop) of a face.
corner_record(m, face, k) ==
    LET vert == m.vertices[face.verts[k] + 1]
        uv == face.loops[k].uv
    IN  [c |-> norm_list(<<vert.co[1], vert.co[3], -vert.co[2]>>),
         n |-> norm_list(<<vert.normal[1], vert.normal[3], -vert.normal[2]>>),
         t |-> <<uv[1], One - uv[2]>>,
         map_idx |-> face.map]

\* verts and old_indxs after the loop over bm.faces, in emission order.
built_verts(m) ==
    Flatten([f \in 1..Len(m.faces) |->
        [k \in 1..3 |-> corner_record(m, m.faces[f], k)]])

built_old_indxs(m) ==
    Flatten([f \in 1..Len(m.faces) |-> [k \in 1..3 |-> m.faces[f].verts[k]]])

\* slots[slot_name].append(face_idx) for every face with map_idx >= 0.
RECURSIVE build_slots(_, _, _)
build_slots(m, f, slots) ==
    IF f > Len(m.faces) THEN slots
    ELSE LET map_idx == m.faces[f].map
         IN  IF map_idx >= 0
             THEN build_slots(m, f + 1,
                              DictAppend(slots, m.face_maps[map_idx + 1], f - 1))
             ELSE build_slots(m, f + 1, slots)

\* The (vertex, group, weight) triples in the order the code visits them:
\* for v in me.data.vertices: for g in v.groups.
assignments(m) ==
    Flatten([v \in 1..Len(m.vertices) |->
        [j \in 1..Len(m.vertices[v].groups) |->
            [v |-> v,
             group |-> m.vertices[v].groups[j].group,
             weight |-> m.vertices[v].groups[j].weight]]])

\* new_idxs of the code: the set of indices the corners of vertex v got.
new_idxs_per_corner(old_indxs, indxs, v) ==
    LET hits == SetToSeq({j \in 1..Len(old_indxs) : old_indxs[j] = v})
    IN  [i \in 1..Len(hits) |-> indxs[hits[i]]]

\* The iteration order of a Python set is not specified; the model visits it
\* in ascending order and no property below depends on the order.
new_idxs(old_indxs, indxs, v) ==
    SetToSeq({indxs[i] : i \in {j \in 1..Len(old_indxs) : old_indxs[j] = v}})

RECURSIVE append_all(_, _, _, _)
append_all(groups, name, idxs, weight) ==
    IF idxs = <<>> THEN groups
    ELSE append_all(DictAppend(groups, name, <<Head(idxs), weight>>),
                    name, Tail(idxs), weight)

weight_skipped(weight) == weight <= 0

RECURSIVE build_groups(_, _, _, _, _)
build_groups(m, asg, old_indxs, indxs, groups) ==
    IF asg = <<>> THEN groups
    ELSE LET a == Head(asg)
             name == m.vertex_groups[a.group + 1]
             weight == norm(a.weight)
         IN  IF weight_skipped(weight)
             THEN build_groups(m, Tail(asg), old_indxs, indxs, groups)
             ELSE build_groups(m, Tail(asg), old_indxs, indxs,
                     append_all(groups, name,
                                new_idxs(old_indxs, indxs, a.v - 1), weight))

\* The result of export_mesh: status is "ok" or the error raised; keys are the
\* keys of the returned dict ex; vs and old_indxs are the locals verts (before
\* make_indexes) and old_indxs of the run.
MeshError(what) ==
    [status |-> what, keys |-> {}, verts |-> <<>>, indxs |-> <<>>,
     groups |-> <<>>, slots |-> <<>>, vs |-> <<>>, old_indxs |-> <<>>]

export_mesh(m) ==
    IF triangulate(m.faces) # "ok" THEN MeshError(triangulate(m.faces))
    ELSE IF \E f \in 1..Len(m.faces) : \E k \in 1..3 : m.faces[f].loops[k].index < 0
    THEN MeshError("ValueError: uv map")
    ELSE
        LET vs == built_verts(m)
            old_indxs == built_old_indxs(m)
            mi == make_indexes(vs)
            groups == build_groups(m, assignments(m), old_indxs, mi.indxs, <<>>)
            slots == build_slots(m, 1, <<>>)
        IN  [status |-> "ok",
             keys |-> {"verts", "indxs"}
                        \cup (IF groups # <<>> THEN {"groups"} ELSE {})
                        \cup (IF slots # <<>> THEN {"slots"} ELSE {}),
             verts |-> [i \in 1..Len(mi.verts) |->
                          [c |-> mi.verts[i].c, n |-> mi.verts[i].n, t |-> mi.verts[i].t]],
             indxs |-> mi.indxs,
             groups |-> groups,
             slots |-> slots,
             vs |-> vs,
             old_indxs |-> old_indxs]


(***************************************************************************)
(* The meshes export_mesh is run on.  Four vertices 0..3 and triangles     *)
(* (0,1,2) and (0,2,3), so vertices 0 and 2 are shared by faces.  Vertex 3 *)
(* is either apart from vertex 1, or within rounding of it with the same   *)
(* normal, or within rounding of it with another normal.  Weights: 4 is    *)
(* 0.0000004 and rounds to 0.                                              *)
(***************************************************************************)
MaxFaces == 2

Normal_Z == <<0, 0, One>>

Normal_Y == <<0, One, 0>>

Vertex3Data ==
    { [co |-> <<0, One, 0>>, normal |-> Normal_Z],
      [co |-> <<One + 4, 4, -4>>, normal |-> Normal_Z],
      [co |-> <<One + 4, 4, -4>>, normal |-> Normal_Y] }

GroupProfiles ==
    { <<>>,
      <<[group |-> 0, weight |-> One \div 2]>>,
      <<[group |-> 0, weight |-> 4], [group |-> 1, weight |-> One]>> }

\* The UVs a loop of each vertex may carry.
UVOptions(v) ==
    CASE v = 0 -> {<<0, 0>>}
      [] v = 1 -> {<<One, 0>>}
      [] v = 2 -> {<<One, One>>, <<0, One>>}
      [] OTHER -> {<<One, 0>>}

TriVerts == {<<0, 1, 2>>, <<0, 2, 3>>}

MapIdxs == {-1, 0, 1}

\* A triangle on vs whose loops start at loop index base.
Triangle(vs, uvs, map_idx, base) ==
    [verts |-> vs,
     loops |-> [k \in 1..3 |-> [index |-> base + k - 1, uv |-> uvs[k]]],
     map |-> map_idx]

Faces(base) ==
    { Triangle(vs, uvs, map_idx, base) :
        vs \in TriVerts, uvs \in {<<0, 0>>} \X {<<One, One>>, <<0, One>>, <<One, 0>>}
                                  \X {<<One, One>>, <<0, One>>, <<One, 0>>},
        map_idx \in MapIdxs }

ValidFaces(base) ==
    { f \in Faces(base) : \A k \in 1..3 : f.loops[k].uv \in UVOptions(f.verts[k]) }

\* A two-vertex face and a triangle whose loops have no index.
BadFaces ==
    { [verts |-> <<0, 1>>,
       loops |-> [k \in 1..2 |-> [index |-> k - 1, uv |-> <<0, 0>>]],
       map |-> -1],
      [verts |-> <<0, 1, 2>>,
       loops |-> [k \in 1..3 |-> [index |-> -1, uv |-> <<0, 0>>]],
       map |-> -1] }

MeshNotRun == MeshError("not run")

ActionNotRun ==
    [status |-> "not run", range |-> <<>>, objects |-> <<>>, merged |-> <<>>]

SkeletonNotRun == [status |-> "not run"]

\* The Export operator before execute is called on it.
OperatorIdle ==
    [to_export |-> "MESH", enable_indent |-> FALSE,
     context |-> [mode |-> "OBJECT", active_object |-> FALSE, data |-> None,
                  action |-> FALSE],
     pc |-> "idle", result |-> None, file |-> <<>>, reports |-> <<>>]

InitMesh ==
    /\ \E d3 \in Vertex3Data, g1 \in {g \in GroupProfiles : Len(g) < 2},
          g2 \in GroupProfiles, g3 \in {g \in GroupProfiles : Len(g) < 2} :
          me = [vertices |->
                   << [co |-> <<0, 0, 0>>, normal |-> Normal_Z, groups |-> <<>>],
                      [co |-> <<One, 0, 0>>, normal |-> Normal_Z, groups |-> g1],
                      [co |-> <<One, One, 0>>, normal |-> Normal_Z, groups |-> g2],
                      [co |-> d3.co, normal |-> d3.normal, groups |-> g3] >>,
                faces |-> <<>>,
                vertex_groups |-> <<"ga", "gb">>,
                face_maps |-> <<"s0", "s1">>]
    /\ meshEx = MeshNotRun
    /\ act = <<>>
    /\ actEx = ActionNotRun
    /\ skeleton = <<>>
    /\ skelEx = SkeletonNotRun
    /\ op = OperatorIdle

\* The host adds a face to the mesh.
AddFace(face) ==
    /\ meshEx = MeshNotRun
    /\ Len(me.faces) < MaxFaces
    /\ me' = [me EXCEPT !.faces = Append(@, face)]
    /\ UNCHANGED <<meshEx, act, actEx, skeleton, skelEx, op>>

\* Export.export_mesh: one run of export_mesh on the mesh.
ExportMesh ==
    /\ meshEx = MeshNotRun
    /\ meshEx' = export_mesh(me)
    /\ UNCHANGED <<me, act, actEx, skeleton, skelEx, op>>

NextMesh ==
    \/ \E face \in ValidFaces(3 * Len(me.faces)) \cup BadFaces : AddFace(face)
    \/ ExportMesh

SpecMesh == InitMesh /\ [][NextMesh]_vars


(***************************************************************************)
(*                        Properties of export_mesh                        *)
(***************************************************************************)
Corners == 1..Len(meshEx.vs)

CornerRec(i) == meshEx.vs[i]

\* Equal rounded position, rounded normal and UV.
SameFields(i, j) ==
    /\ CornerRec(i).c = CornerRec(j).c
    /\ CornerRec(i).n = CornerRec(j).n
    /\ CornerRec(i).t = CornerRec(j).t

MeshOk == meshEx.status = "ok"

\* C1 as stated: corners with equal rounded position, rounded normal and UV
\* get the same index in indxs, whatever the face-map tags of their faces.
C1_SameFieldsSameIndex ==
    MeshOk =>
        \A i, j \in Corners :
            SameFields(i, j) => meshEx.indxs[i] = meshEx.indxs[j]

\* C1 amended: corners with equal rounded position, rounded normal, UV and
\* face-map index get the same index in indxs, and corners of faces with
\* different face-map indices never get the same index.
C1_SameRecordSameIndex ==
    MeshOk =>
        \A i, j \in Corners :
            /\ (SameFields(i, j) /\ CornerRec(i).map_idx = CornerRec(j).map_idx)
                  => meshEx.indxs[i] = meshEx.indxs[j]
            /\ CornerRec(i).map_idx # CornerRec(j).map_idx
                  => meshEx.indxs[i] # meshEx.indxs[j]

\* Two corners of different source vertices, whose positions differ before
\* rounding, were given one index.
C1_Witness ==
    /\ MeshOk
    /\ \E i, j \in Corners :
          /\ meshEx.old_indxs[i] # meshEx.old_indxs[j]
          /\ me.vertices[meshEx.old_indxs[i] + 1].co
                # me.vertices[meshEx.old_indxs[j] + 1].co
          /\ CornerRec(i) = CornerRec(j)
          /\ meshEx.indxs[i] = meshEx.indxs[j]

\* The first corner that was given index a.
FirstCorner(a) == Min({i \in Corners : meshEx.indxs[i] = a})

Stripped(r) == [c |-> r.c, n |-> r.n, t |-> r.t]

C2_Sizes ==
    /\ Len(meshEx.indxs) = 3 * Len(me.faces)
    /\ \A i \in Corners : meshEx.indxs[i] \in 0..(Len(meshEx.verts) - 1)
    /\ Len(meshEx.verts) <= 3 * Len(me.faces)
    /\ \A a \in 0..(Len(meshEx.verts) - 1) : \E i \in Corners : meshEx.indxs[i] = a

C2_Lookup ==
    /\ \A i \in Corners : meshEx.verts[meshEx.indxs[i] + 1] = Stripped(CornerRec(i))
    /\ \A a, b \in 0..(Len(meshEx.verts) - 1) :
          a < b => FirstCorner(a) < FirstCorner(b)

\* C2 as stated: one index per corner, every index below len(verts),
\* len(verts) <= the number of corners, no two entries of verts equal,
\* verts[indxs[i]] the record of corner i, verts in order of first occurrence.
C2_BuffersNoEqualVerts ==
    MeshOk =>
        /\ C2_Sizes
        /\ C2_Lookup
        /\ \A a, b \in 1..Len(meshEx.verts) : a # b => meshEx.verts[a] # meshEx.verts[b]

\* C2 amended: as stated, but two entries of verts differ in rounded position,
\* normal, UV or in the face-map index of the faces they were built from
\* (which the output no longer carries: entries of verts can be equal).
C2_BuffersNoEqualTaggedVerts ==
    MeshOk =>
        /\ C2_Sizes
        /\ C2_Lookup
        /\ \A a, b \in 0..(Len(meshEx.verts) - 1) :
              a # b => CornerRec(FirstCorner(a)) # CornerRec(FirstCorner(b))

\* Two faces were exported and a corner reused an earlier entry of verts.
C2_Witness ==
    /\ MeshOk
    /\ Len(me.faces) = 2
    /\ Len(meshEx.verts) > 3
    /\ Len(meshEx.verts) < Len(meshEx.indxs)

\* The indices the corners of source vertex v (0-based) were given.
IndicesOf(v) ==
    {meshEx.indxs[i] : i \in {j \in Corners : meshEx.old_indxs[j] = v}}

Assignments == 1..Len(assignments(me))

Assignment(k) == assignments(me)[k]

GroupName(k) == me.vertex_groups[Assignment(k).group + 1]

\* The list the output holds for a group name, empty when the name is absent.
GroupList(name) ==
    IF name \in DictKeys(meshEx.groups) THEN DictGet(meshEx.groups, name) ELSE <<>>

Count(list, e) == Cardinality({i \in 1..Len(list) : list[i] = e})

\* C3: in every group list, the entry [index, weight] occurs once for every
\* assignment (vertex, weight) of that group whose rounded weight is weight > 0
\* and whose vertex has a corner with that index, and no other entry occurs;
\* every emitted weight is > 0; a group without entries is absent.
C3_WeightEntries ==
    MeshOk =>
        /\ LET idxs == [v \in 0..(Len(me.vertices) - 1) |-> IndicesOf(v)]
           IN  \A name \in Range(me.vertex_groups) :
                 LET list == GroupList(name)
                 IN  \A idx \in 0..Len(meshEx.verts),
                        w \in {norm(Assignment(k).weight) : k \in Assignments}
                               \cup {e[2] : e \in Range(list)} :
                         Count(list, <<idx, w>>) =
                             Cardinality({k \in Assignments :
                                 /\ GroupName(k) = name
                                 /\ norm(Assignment(k).weight) = w
                                 /\ w > 0
                                 /\ idx \in idxs[Assignment(k).v - 1]})
        /\ \A name \in DictKeys(meshEx.groups) :
              /\ name \in Range(me.vertex_groups)
              /\ GroupList(name) # <<>>
              /\ \A e \in Range(GroupList(name)) :
                    e[2] > 0 /\ e[1] \in 0..(Len(meshEx.verts) - 1)
        /\ "groups" \in meshEx.keys <=> meshEx.groups # <<>>

\* A weighted vertex whose corners were given two indices, a weight that
\* rounds to 0, and two weighted source vertices sharing one index.
C3_Witness ==
    /\ MeshOk
    /\ \E k \in Assignments :
          norm(Assignment(k).weight) > 0
          /\ Cardinality(IndicesOf(Assignment(k).v - 1)) >= 2
    /\ \E k \in Assignments :
          Assignment(k).weight > 0 /\ norm(Assignment(k).weight) = 0
          /\ IndicesOf(Assignment(k).v - 1) # {}
    /\ \E k, l \in Assignments :
          /\ Assignment(k).v # Assignment(l).v
          /\ GroupName(k) = GroupName(l)
          /\ norm(Assignment(k).weight) > 0
          /\ norm(Assignment(l).weight) > 0
          /\ IndicesOf(Assignment(k).v - 1) \cap IndicesOf(Assignment(l).v - 1) # {}


(***************************************************************************)
(*                            export_skeleton                              *)
(*                                                                         *)
(* skeleton.bones is a sequence of bones [name, parent, head_local,        *)
(* tail_local, rot]; parent is None or the name of an earlier bone, rot is *)
(* matrix_local.to_quaternion() as <<w, x, y, z>>.  b.children is kept by  *)
(* the host: the bones whose parent is b, in bone order.                   *)
(***************************************************************************)

\* ROT_ADJUSTMENT = Quaternion((0.70710678118, -0.70710678118, 0, 0)) in units
\* of 0.70710678118: every component rot_adjust returns is in that unit.
ROT_ADJUSTMENT == <<1, -1, 0, 0>>

\* Quaternion product p @ q on <<w, x, y, z>>.
QuaternionMul(p, q) ==
    << p[1] * q[1] - p[2] * q[2] - p[3] * q[3] - p[4] * q[4],
       p[1] * q[2] + p[2] * q[1] + p[3] * q[4] - p[4] * q[3],
       p[1] * q[3] - p[2] * q[4] + p[3] * q[1] + p[4] * q[2],
       p[1] * q[4] + p[2] * q[3] - p[3] * q[2] + p[4] * q[1] >>

rot_adjust(rot) ==
    LET res == QuaternionMul(ROT_ADJUSTMENT, rot)
    IN  <<res[2], res[3], res[4], res[1]>>

children_of(bones, b) ==
    LET kids == {i \in 1..Len(bones) : bones[i].parent = b.name}
        order == SetToSeq(kids)
    IN  [i \in 1..Len(order) |-> bones[order[i]].name]

\* The root: the name of the first bone without parent, None when there is none.
find_root(bones) ==
    LET parentless == {i \in 1..Len(bones) : bones[i].parent = None}
    IN  IF parentless # {} THEN bones[Min(parentless)].name ELSE None

\* One entry of the bones dict; keys tells whether "c" is present.
bone_record(bones, b) ==
    LET children == children_of(bones, b)
    IN  [h |-> norm_list(<<b.head_local[1], b.head_local[3], -b.head_local[2]>>),
         t |-> norm_list(<<b.tail_local[1], b.tail_local[3], -b.tail_local[2]>>),
         r |-> rot_adjust(b.rot),
         c |-> children,
         keys |-> {"h", "t", "r"} \cup (IF children # <<>> THEN {"c"} ELSE {})]

export_skeleton(bones) ==
    [status |-> "ok",
     root |-> find_root(bones),
     bones |-> [i \in 1..Len(bones) |->
                  [key |-> bones[i].name, val |-> bone_record(bones, bones[i])]]]

MaxBones == 3

BoneNames == <<"b0", "b1", "b2", "b3", "b4">>

BoneHeads == {<<0, 0, 0>>, <<4, One, -5>>}

BoneRots == {<<One, 0, 0, 0>>, <<0, One, 0, 0>>}

InitSkeleton ==
    /\ skeleton = <<>>
    /\ skelEx = SkeletonNotRun
    /\ me = [vertices |-> <<>>, faces |-> <<>>, vertex_groups |-> <<>>,
             face_maps |-> <<>>]
    /\ meshEx = MeshNotRun
    /\ act = <<>>
    /\ actEx = ActionNotRun
    /\ op = OperatorIdle

\* The host adds a bone to the armature, parentless or under an existing bone.
AddBone(parent, head, rot) ==
    /\ skelEx = SkeletonNotRun
    /\ Len(skeleton) < MaxBones
    /\ skeleton' = Append(skeleton,
            [name |-> BoneNames[Len(skeleton) + 1],
             parent |-> parent,
             head_local |-> head,
             tail_local |-> <<head[1], head[2], head[3] + One>>,
             rot |-> rot])
    /\ UNCHANGED <<skelEx, me, meshEx, act, actEx, op>>

\* Export.export_skeleton: one run of export_skeleton on the armature.
ExportSkeleton ==
    /\ skelEx = SkeletonNotRun
    /\ skelEx' = export_skeleton(skeleton)
    /\ UNCHANGED <<skeleton, me, meshEx, act, actEx, op>>

NextSkeleton ==
    \/ \E parent \in {None} \cup {skeleton[i].name : i \in 1..Len(skeleton)},
          head \in BoneHeads, rot \in BoneRots : AddBone(parent, head, rot)
    \/ ExportSkeleton

SpecSkeleton == InitSkeleton /\ [][NextSkeleton]_vars

(***************************************************************************)
(*                      Properties of export_skeleton                      *)
(***************************************************************************)
Parentless == {i \in 1..Len(skeleton) : skeleton[i].parent = None}

SkeletonRan == skelEx.status # "not run"

\* C5: with no parentless bone or with more than one, export_skeleton fails
\* with AmbiguousRoot and returns no tree.
C5_AmbiguousRootFails ==
    (SkeletonRan /\ Cardinality(Parentless) # 1) => skelEx.status = "AmbiguousRoot"

\* What the code does instead: it always returns a tree, whose root is the
\* first parentless bone, or None when no bone is parentless.
C5_CodeReturnsFirstRoot ==
    SkeletonRan =>
        /\ skelEx.status = "ok"
        /\ skelEx.root = IF Parentless = {} THEN None
                         ELSE skeleton[Min(Parentless)].name
        /\ Len(skelEx.bones) = Len(skeleton)


(***************************************************************************)
(*                             export_action                               *)
(*                                                                         *)
(* act is act.fcurves: a sequence of channels [data_path, array_index,     *)
(* keyframe_points].  A data_path such as pose.bones["A"].location is the  *)
(* record [name |-> "A", prop |-> "location"].  A keyframe is [co,         *)
(* interpolation, easing, handle_left, handle_right] with co = <<frame,    *)
(* value>>.                                                                *)
(*                                                                         *)
(* A Python value that may be None is <<>> for None and <<x>> for x where  *)
(* x is a number or a dict; a string that may be None is None or the       *)
(* string.  A segment dict is [r, handles, e, c, b]: r is <<from, to>> with*)
(* to possibly None; a key that is absent is None (e, c) or <<>>           *)
(* (handles, b).                                                           *)
(***************************************************************************)
ACTION_PRECISION == 10

NoneV == <<>>

Some(x) == <<x>>

\* parse_path: raises for Euler angles, returns None for a path that is not
\* a rotation, location or scale, else (name, kind).
parse_path_any(path) ==
    CASE path.prop = "rotation_euler" ->
            [tag |-> "raise", name |-> path.name, kind |-> None]
      [] path.prop = "rotation_quaternion" ->
            [tag |-> "path", name |-> path.name, kind |-> "rot"]
      [] path.prop = "scale" ->
            [tag |-> "path", name |-> path.name, kind |-> "scl"]
      [] OTHER ->
            [tag |-> "path", name |-> path.name, kind |-> "pos"]

parse_path(path) ==
    CASE path.prop = "rotation_euler" ->
            [tag |-> "raise", name |-> path.name, kind |-> None]
      [] path.prop = "rotation_quaternion" ->
            [tag |-> "path", name |-> path.name, kind |-> "rot"]
      [] path.prop = "location" ->
            [tag |-> "path", name |-> path.name, kind |-> "pos"]
      [] path.prop = "scale" ->
            [tag |-> "path", name |-> path.name, kind |-> "scl"]
      [] OTHER ->
            [tag |-> "none", name |-> path.name, kind |-> None]

\* str.lower() on the interpolation names of the host.
Lower(curve) ==
    CASE curve = "BEZIER" -> "bezier"
      [] curve = "LINEAR" -> "linear"
      [] curve = "CONSTANT" -> "constant"
      [] curve = "SINE" -> "sine"
      [] curve = "BACK" -> "back"
      [] curve = "BOUNCE" -> "bounce"
      [] curve = "ELASTIC" -> "elastic"
      [] OTHER -> curve

make_interpolation_linear_default(keyframe) ==
    [ease |-> None,
     curve |-> IF keyframe.interpolation \in {"BEZIER", "LINEAR"} THEN None
               ELSE Lower(keyframe.interpolation)]

make_interpolation(keyframe) ==
    LET curve == keyframe.interpolation
        ease0 == CASE keyframe.easing = "AUTO" ->
                        IF curve \in {"BACK", "BOUNCE", "ELASTIC"} THEN "out" ELSE "in"
                   [] keyframe.easing = "EASE_IN" -> "in"
                   [] keyframe.easing = "EASE_OUT" -> "out"
                   [] keyframe.easing = "EASE_IN_OUT" -> "in_out"
                   [] OTHER -> None
        ease == IF ease0 = "in" \/ curve \in {"CONSTANT", "LINEAR", "BEZIER"}
                THEN None ELSE ease0
        curve1 == CASE curve = "BEZIER" -> None
                    [] curve = "CONSTANT" -> "const"
                    [] curve = "LINEAR" -> "line"
                    [] OTHER -> Lower(curve)
    IN  [ease |-> ease, curve |-> curve1]

\* motions[path] on a defaultdict(list): the key is created when missing.
DictTouch(d, k) ==
    IF k \in DictKeys(d) THEN d ELSE Append(d, [key |-> k, val |-> <<>>])

\* The loop over c.keyframe_points of one channel, run on the first n
\* keyframes from the state st0 = [motions, start, end] at its entry.
RECURSIVE read_keyframes(_, _, _, _, _)
read_keyframes(points, n, idx, path, st0) ==
    IF n = 0 THEN st0
    ELSE LET st == read_keyframes(points, n - 1, idx, path, st0)
             k == points[n]
             frame == norm(k.co[1])
             value == k.co[2]
             start == IF st.start = NoneV THEN frame ELSE Min({st.start[1], frame})
             end == IF st.end = NoneV THEN frame ELSE Max({st.end[1], frame})
             ic == make_interpolation(k)
             node == [f |-> frame, v |-> value, e |-> ic.ease, c |-> ic.curve]
             handles == [left |-> k.handle_left, right |-> k.handle_right]
         IN  [motions |-> DictAppend(st.motions, path,
                             [idx |-> idx, node |-> node, handles |-> handles]),
              start |-> Some(start),
              end |-> Some(end)]

\* The loop over act.fcurves, run on the first n channels; status becomes the
\* error parse_path raised, which ends the loop.
RECURSIVE read_fcurves(_, _)
read_fcurves(fcurves, n) ==
    IF n = 0
    THEN [status |-> "ok", motions |-> <<>>, start |-> NoneV, end |-> NoneV]
    ELSE LET st == read_fcurves(fcurves, n - 1)
             c == fcurves[n]
             path == parse_path(c.data_path)
             key == <<path.name, path.kind>>
             rd == read_keyframes(c.keyframe_points, Len(c.keyframe_points),
                      c.array_index, key,
                      [motions |-> DictTouch(st.motions, key),
                       start |-> st.start, end |-> st.end])
         IN  IF st.status # "ok" THEN st
             ELSE IF path.tag = "raise"
             THEN [st EXCEPT !.status =
                      "ValueError: A quaternion rotation was expected, not Euler angles"]
             ELSE IF path.tag = "none" THEN st
             ELSE [status |-> "ok", motions |-> rd.motions,
                   start |-> rd.start, end |-> rd.end]

Axes(kind) == IF kind = "rot" THEN 1..4 ELSE 1..3

\* The merge loop: every (idx, node, handles) goes to the first motion node
\* within ACTION_PRECISION of its frame, or to a new one.
find_node_never(motion, f) == {}

find_node(motion, f) ==
    {i \in 1..Len(motion) : Abs(motion[i].f - f) < ACTION_PRECISION}

RECURSIVE merge_nodes(_, _, _)
merge_nodes(nodes, kind, motion) ==
    IF nodes = <<>> THEN motion
    ELSE LET n == Head(nodes)
             hit == find_node(motion, n.node.f)
             value == [r |-> <<n.node.v, NoneV>>,
                       handles |-> Some(n.handles),
                       e |-> n.node.e,
                       c |-> n.node.c,
                       b |-> NoneV]
         IN  IF hit # {}
             THEN merge_nodes(Tail(nodes), kind,
                    [motion EXCEPT ![Min(hit)].v[n.idx + 1] = Some(value)])
             ELSE merge_nodes(Tail(nodes), kind,
                    Append(motion,
                       [f |-> n.node.f,
                        d |-> NoneV,
                        k |-> kind,
                        v |-> [a \in Axes(kind) |->
                                 IF a = n.idx + 1 THEN Some(value) ELSE NoneV]]))

\* motion.sort(key=lambda mot: mot["f"]): a stable sort.
RECURSIVE insert_sorted(_, _)
insert_sorted(sorted, x) ==
    IF sorted = <<>> THEN <<x>>
    ELSE IF x.f < Head(sorted).f THEN <<x>> \o sorted
    ELSE <<Head(sorted)>> \o insert_sorted(Tail(sorted), x)

RECURSIVE sort_by_frame(_)
sort_by_frame(motion) ==
    IF motion = <<>> THEN <<>>
    ELSE insert_sorted(sort_by_frame(SubSeq(motion, 1, Len(motion) - 1)),
                       motion[Len(motion)])


\* The body of "for c, n in zip(curr["v"], next["v"])" for one axis.
segment(c, n) ==
    [c EXCEPT !.r = <<c.r[1], Some(n.r[1])>>,
              !.b = IF c.c = None \/ c.c = "bezier"
                    THEN <<c.handles[1].right[1], c.handles[1].right[2],
                           n.handles[1].left[1], n.handles[1].left[2]>>
                    ELSE @]

\* The loop "for i in range(len(motion) - 1)" from index i on.  An axis that
\* is None in curr or in next makes n["r"] or c["r"] raise TypeError.
RECURSIVE derive_segments(_, _)
derive_segments(motion, i) ==
    IF i > Len(motion) - 1 THEN [status |-> "ok", motion |-> motion]
    ELSE LET curr == motion[i]
             next == motion[i + 1]
             duration == next.f - curr.f
         IN  IF duration < ACTION_PRECISION
             THEN [status |-> "ValueError: Duration is too short", motion |-> motion]
             ELSE IF \E a \in DOMAIN curr.v : next.v[a] = NoneV \/ curr.v[a] = NoneV
             THEN [status |-> "TypeError: 'NoneType' object is not subscriptable",
                   motion |-> motion]
             ELSE derive_segments(
                    [motion EXCEPT ![i] =
                        [curr EXCEPT !.d = Some(duration),
                                     !.v = [a \in DOMAIN curr.v |->
                                              Some(segment(curr.v[a][1], next.v[a][1]))]]],
                    i + 1)

\* The loop over the values of an emitted node: handles are deleted and a
\* segment with "b" whose ends are within ACTION_PRECISION becomes a line.
finish_value_exact(v) ==
    IF v.b # NoneV /\ v.r[2][1] = v.r[1]
    THEN [v EXCEPT !.handles = NoneV, !.c = "line", !.b = NoneV]
    ELSE [v EXCEPT !.handles = NoneV]

finish_value(v) ==
    IF v.b # NoneV /\ Abs(v.r[2][1] - v.r[1]) < ACTION_PRECISION
    THEN [v EXCEPT !.handles = NoneV, !.c = "line", !.b = NoneV]
    ELSE [v EXCEPT !.handles = NoneV]

\* Swap rot values from [w, x, y, z] to [x, y, z, w].
finish_node(node) ==
    LET vs == [a \in DOMAIN node.v |-> Some(finish_value(node.v[a][1]))]
    IN  [node EXCEPT !.v = IF node.k = "rot"
                           THEN <<vs[2], vs[3], vs[4], vs[1]>>
                           ELSE vs]

\* motion = motion[:-1]
drop_nothing(motion) == motion

drop_last(motion) ==
    IF motion = <<>> THEN <<>> ELSE SubSeq(motion, 1, Len(motion) - 1)

\* The body of "for path, nodes in motions.items()" for one path: the nodes
\* emitted for it, or the error raised.
export_motion(kind, nodes) ==
    LET merged == merge_nodes(nodes, kind, <<>>)
        sorted == sort_by_frame(merged)
        derived == derive_segments(sorted, 1)
        kept == drop_last(derived.motion)
    IN  [status |-> derived.status,
         merged |-> sorted,
         motion |-> IF derived.status = "ok"
                    THEN [i \in 1..Len(kept) |-> finish_node(kept[i])]
                    ELSE <<>>]

dict_extend_front(d, k, items) ==
    [i \in 1..Len(d) |->
        IF d[i].key = k THEN [d[i] EXCEPT !.val = items \o @] ELSE d[i]]

RECURSIVE dict_extend(_, _, _)
dict_extend(d, k, items) ==
    IF items = <<>> THEN d
    ELSE dict_extend(DictAppend(d, k, Head(items)), k, Tail(items))

\* The loop over motions.items(): st is [status, objects, merged]; merged
\* keeps, per path, the sorted motion before its last node is dropped.
RECURSIVE export_motions(_, _)
export_motions(motions, st) ==
    IF motions = <<>> THEN st
    ELSE LET name == Head(motions).key[1]
             kind == Head(motions).key[2]
             em == export_motion(kind, Head(motions).val)
             merged == Append(st.merged, [key |-> Head(motions).key, val |-> em.merged])
         IN  IF em.status # "ok"
             THEN [status |-> em.status, objects |-> st.objects, merged |-> merged]
             ELSE export_motions(Tail(motions),
                    [status |-> "ok",
                     objects |-> dict_extend(DictTouch(st.objects, name), name, em.motion),
                     merged |-> merged])

\* The result of export_action: status is "ok" or the error raised; range and
\* objects are the returned dict; merged is the local motion of every path
\* after the sort.
ActionError(what, merged) ==
    [status |-> what, range |-> <<>>, objects |-> <<>>, merged |-> merged]

export_action(fcurves) ==
    LET rd == read_fcurves(fcurves, Len(fcurves))
        ex == export_motions(rd.motions,
                 [status |-> "ok", objects |-> <<>>, merged |-> <<>>])
    IN  IF rd.status # "ok" THEN ActionError(rd.status, <<>>)
        ELSE IF ex.status # "ok" THEN ActionError(ex.status, ex.merged)
        ELSE IF rd.start = NoneV \/ rd.end = NoneV
        THEN ActionError("ValueError: Failed to export an empty action", ex.merged)
        ELSE [status |-> "ok",
              range |-> <<rd.start[1], rd.end[1]>>,
              objects |-> ex.objects,
              merged |-> ex.merged]


(***************************************************************************)
(* The actions export_action is run on.  The host keeps the keyframes of a *)
(* channel in ascending frame order and has one channel per (data_path,    *)
(* array_index).                                                           *)
(***************************************************************************)
MaxKeys == 2

MaxInserts == 3

Path(name, prop) == [name |-> name, prop |-> prop]

\* The number of array indices of a property.
PropSize(prop) ==
    CASE prop = "rotation_quaternion" -> 4
      [] prop \in {"location", "scale", "rotation_euler"} -> 3
      [] OTHER -> 1

ChannelsOf(path) == {i \in 1..Len(act) : act[i].data_path = path}

LastFrame(i) ==
    IF act[i].keyframe_points = <<>> THEN -1
    ELSE act[i].keyframe_points[Len(act[i].keyframe_points)].co[1]

\* The keyframe the host inserts on axis idx at a frame: the value of the
\* property there, bezier interpolation, automatic easing and flat handles.
DefaultKey(frame, idx) ==
    LET value == (frame \div 4) + idx * One
    IN  [co |-> <<frame, value>>,
         interpolation |-> "BEZIER",
         easing |-> "AUTO",
         handle_left |-> <<frame - One, value>>,
         handle_right |-> <<frame + One, value>>]

InitAction ==
    /\ act = <<>>
    /\ actEx = ActionNotRun
    /\ me = [vertices |-> <<>>, faces |-> <<>>, vertex_groups |-> <<>>,
             face_maps |-> <<>>]
    /\ meshEx = MeshNotRun
    /\ skeleton = <<>>
    /\ skelEx = SkeletonNotRun
    /\ op = OperatorIdle

\* The host creates the channels of a property, one per array index.
NewFCurves(path) ==
    /\ actEx = ActionNotRun
    /\ ChannelsOf(path) = {}
    /\ act' = act \o [idx \in 1..PropSize(path.prop) |->
                        [data_path |-> path, array_index |-> idx - 1,
                         keyframe_points |-> <<>>]]
    /\ UNCHANGED <<actEx, me, meshEx, skeleton, skelEx, op>>

\* The host keys a whole property at a frame: one keyframe on every channel
\* of the property.
KeyframeInsert(path, frame) ==
    /\ actEx = ActionNotRun
    /\ ChannelsOf(path) # {}
    /\ \A i \in ChannelsOf(path) :
          Len(act[i].keyframe_points) < MaxInserts /\ LastFrame(i) < frame
    /\ act' = [i \in 1..Len(act) |->
                 IF act[i].data_path = path
                 THEN [act[i] EXCEPT !.keyframe_points =
                          Append(@, DefaultKey(frame, act[i].array_index))]
                 ELSE act[i]]
    /\ UNCHANGED <<actEx, me, meshEx, skeleton, skelEx, op>>

\* The host creates one channel.
NewFCurve(path, idx) ==
    /\ actEx = ActionNotRun
    /\ \A i \in ChannelsOf(path) : act[i].array_index # idx
    /\ act' = Append(act, [data_path |-> path, array_index |-> idx,
                           keyframe_points |-> <<>>])
    /\ UNCHANGED <<actEx, me, meshEx, skeleton, skelEx, op>>

\* The host adds a keyframe to one channel.
InsertKey(i, k) ==
    /\ actEx = ActionNotRun
    /\ i \in 1..Len(act)
    /\ Len(act[i].keyframe_points) < MaxKeys
    /\ LastFrame(i) < k.co[1]
    /\ act' = [act EXCEPT ![i].keyframe_points = Append(@, k)]
    /\ UNCHANGED <<actEx, me, meshEx, skeleton, skelEx, op>>

\* Export.export_action: one run of export_action on the action.
ExportAction ==
    /\ actEx = ActionNotRun
    /\ actEx' = export_action(act)
    /\ UNCHANGED <<act, me, meshEx, skeleton, skelEx, op>>

\* Actions on two objects keyed property by property: object A has a
\* position and a rotation motion, object B a scale motion.  Frame 1 is
\* 0.0000001 and rounds to frame 0.
MotionPaths ==
    {Path("A", "location"), Path("A", "rotation_quaternion"), Path("B", "scale")}

MotionFrames == {0, 1, 10 * One, 20 * One + 4}

NextAction ==
    \/ \E path \in MotionPaths : NewFCurves(path)
    \/ \E path \in MotionPaths, frame \in MotionFrames : KeyframeInsert(path, frame)
    \/ ExportAction

SpecAction == InitAction /\ [][NextAction]_vars

\* Actions with channels export_action does not export: Euler rotation and
\* a custom property.
MixedPaths ==
    {Path("A", "location"), Path("B", "scale"),
     Path("A", "rotation_euler"), Path("A", "bbone_easein")}

MixedFrames == {4, 10 * One, 20 * One + 4}

NextActionPaths ==
    \/ \E path \in MixedPaths : NewFCurves(path)
    \/ \E path \in MixedPaths, frame \in MixedFrames : KeyframeInsert(path, frame)
    \/ ExportAction

SpecActionPaths == InitAction /\ [][NextActionPaths]_vars

\* Actions on the three position channels of one object, keyed channel by
\* channel with keyframes of several interpolations, easings and handles.
Key(frame, value, interpolation, easing, left, right) ==
    [co |-> <<frame, value>>,
     interpolation |-> interpolation,
     easing |-> easing,
     handle_left |-> left,
     handle_right |-> right]

KeyframePoints ==
    { Key(0, 0, "LINEAR", "AUTO", <<-One, 0>>, <<One, 0>>),
      Key(0, 0, "BEZIER", "AUTO", <<-One, -3>>, <<3 * One, One>>),
      Key(0, 5 * One, "BEZIER", "EASE_OUT", <<-One, 5 * One>>, <<2 * One, 7 * One>>),
      Key(0, 0, "BACK", "AUTO", <<-One, 0>>, <<One, 0>>),
      Key(1, 2 * One, "CONSTANT", "EASE_IN_OUT", <<-One, 2 * One>>, <<One, 2 * One>>),
      Key(10 * One, 5 * One, "BEZIER", "AUTO", <<7 * One, 4 * One>>, <<13 * One, 6 * One>>),
      Key(10 * One, 5 * One + 4, "SINE", "EASE_IN_OUT", <<8 * One, 5 * One>>,
          <<12 * One, 5 * One>>) }

KeyPath == Path("A", "location")

NextActionKeys ==
    \/ \E idx \in 0..2 : NewFCurve(KeyPath, idx)
    \/ \E i \in 1..Len(act), k \in KeyframePoints : InsertKey(i, k)
    \/ ExportAction

SpecActionKeys == InitAction /\ [][NextActionKeys]_vars


(***************************************************************************)
(*                       Properties of export_action                       *)
(***************************************************************************)
ActionRan == actEx.status # "not run"

ActionOk == actEx.status = "ok"

Recognised(i) ==
    act[i].data_path.prop \in {"location", "rotation_quaternion", "scale"}

Euler(i) == act[i].data_path.prop = "rotation_euler"

Points(i) == act[i].keyframe_points

\* The nodes the output holds for an object name, none when it is absent.
NodesOf(name) ==
    IF name \in DictKeys(actEx.objects) THEN DictGet(actEx.objects, name) ELSE <<>>

\* Some channel has two consecutive keyframes closer than ACTION_PRECISION.
CloseKeyframes ==
    \E i \in 1..Len(act) :
        /\ Recognised(i)
        /\ \E j \in 1..(Len(Points(i)) - 1) :
              Points(i)[j + 1].co[1] - Points(i)[j].co[1] < ACTION_PRECISION

\* The action is one position channel with keyframes at frames 0 and 0.0000001.
TwoCloseKeyframes ==
    /\ Len(act) = 1
    /\ act[1].data_path = KeyPath
    /\ Len(Points(1)) = 2
    /\ Points(1)[1].co[1] = 0
    /\ Points(1)[2].co[1] = 1

\* C4 as stated: keyframes of a motion closer than epsilon, such as frames 0
\* and 0.0000001 of one channel, make export_action fail with "Duration is
\* too short".
C4_CloseKeyframesFail ==
    (ActionRan /\ CloseKeyframes) => actEx.status = "ValueError: Duration is too short"

\* C4 amended: export_action never fails with "Duration is too short" on the
\* keyframes of a host action: frames are rounded to 6 digits and keyframes of
\* a motion whose rounded frames are closer than epsilon are merged into one
\* node before durations are taken, so the nodes of a motion are at least
\* epsilon apart and every emitted d is >= epsilon.  One channel with
\* keyframes at frames 0 and 0.0000001 gives one merged node: the export
\* returns range [0, 0] and no node for the object.
C4_CloseKeyframesMerge ==
    ActionRan =>
        /\ actEx.status # "ValueError: Duration is too short"
        /\ \A p \in 1..Len(actEx.merged) :
              \A i, j \in 1..Len(actEx.merged[p].val) :
                  i < j => actEx.merged[p].val[j].f - actEx.merged[p].val[i].f
                              >= ACTION_PRECISION
        /\ ActionOk =>
              \A o \in 1..Len(actEx.objects) :
                  \A j \in 1..Len(actEx.objects[o].val) :
                      /\ actEx.objects[o].val[j].d # NoneV
                      /\ actEx.objects[o].val[j].d[1] >= ACTION_PRECISION
        /\ TwoCloseKeyframes =>
              /\ ActionOk
              /\ actEx.range = <<0, 0>>
              /\ actEx.objects = <<[key |-> "A", val |-> <<>>]>>
              /\ Len(actEx.merged[1].val) = 1

\* The channel with keyframes at frames 0 and 0.0000001 was exported.
C4_Witness == ActionRan /\ TwoCloseKeyframes

\* The position channel of axis a (1..3), 0 when the action has none.
ChannelOfAxis(a) ==
    LET found == {i \in 1..Len(act) :
                     act[i].data_path = KeyPath /\ act[i].array_index = a - 1}
    IN  IF found = {} THEN 0 ELSE Min(found)

\* On axis a the channel has two keyframes: a linear one at frame 0 with
\* value 0.0 and one at frame 10 with value 5.0.
LinearKeys(a) ==
    /\ ChannelOfAxis(a) # 0
    /\ Len(Points(ChannelOfAxis(a))) = 2
    /\ Points(ChannelOfAxis(a))[1].co = <<0, 0>>
    /\ Points(ChannelOfAxis(a))[1].interpolation = "LINEAR"
    /\ Points(ChannelOfAxis(a))[2].co = <<10 * One, 5 * One>>

\* Every position axis has keyframes at the rounded frames 0 and 10 and at
\* no other.
AllAxesKeyed ==
    \A b \in 1..3 :
        /\ ChannelOfAxis(b) # 0
        /\ {norm(Points(ChannelOfAxis(b))[j].co[1]) :
               j \in 1..Len(Points(ChannelOfAxis(b)))} = {0, 10 * One}

LinearInput(a) == LinearKeys(a) /\ AllAxesKeyed

LinearNode(a, c) ==
    /\ ActionOk
    /\ Len(NodesOf("A")) = 1
    /\ NodesOf("A")[1].f = 0
    /\ NodesOf("A")[1].d = Some(10 * One)
    /\ NodesOf("A")[1].v[a] # NoneV
    /\ NodesOf("A")[1].v[a][1].r = <<0, Some(5 * One)>>
    /\ NodesOf("A")[1].v[a][1].b = NoneV
    /\ NodesOf("A")[1].v[a][1].e = None
    /\ NodesOf("A")[1].v[a][1].c = c

\* C6 as stated: a linear keyframe (0, 0.0) followed by (10, 5.0) gives one
\* node with d = 10 and a segment r = [0.0, 5.0] without "b", "c" and "e".
C6_LinearSegmentNoTag ==
    \A a \in 1..3 : (ActionRan /\ LinearInput(a)) => LinearNode(a, None)

\* C6 amended: a linear keyframe (0, 0.0) followed by (10, 5.0) gives, when
\* every axis of the motion is keyed at frames 0 and 10, one node with d = 10
\* and a segment r = [0.0, 5.0] without "b" and "e" and with c = "line"; when
\* an axis of the motion lacks a keyframe at one of the two frames the export
\* fails with a TypeError.
C6_LinearSegmentLineTag ==
    \A a \in 1..3 :
        (ActionRan /\ LinearKeys(a)) =>
            IF AllAxesKeyed THEN LinearNode(a, "line")
            ELSE actEx.status = "TypeError: 'NoneType' object is not subscriptable"

C6_Witness == ActionOk /\ \E a \in 1..3 : LinearInput(a)

\* The keyframe a segment of axis a at rounded frame f was built from: the
\* last keyframe of the axis's channel that rounds to f.
SourceKey(a, f) ==
    LET ps == Points(ChannelOfAxis(a))
        j == Max({i \in 1..Len(ps) : norm(ps[i].co[1]) = f})
    IN  ps[j]

SegmentAsBezier(seg, curr, next) ==
    IF Abs(next.co[2] - curr.co[2]) < ACTION_PRECISION
    THEN seg.c = "line" /\ seg.b = NoneV
    ELSE /\ seg.c = None
         /\ seg.b = <<curr.handle_right[1], curr.handle_right[2],
                      next.handle_left[1], next.handle_left[2]>>

\* C9: an emitted segment of a bezier keyframe whose end values are closer
\* than 1e-6 has c = "line" and no "b"; any other bezier segment has no "c"
\* and b = the right handle of its keyframe and the left handle of the next;
\* a segment of another interpolation has no "b".
C9_BezierSegments ==
    ActionOk =>
        \A j \in 1..Len(NodesOf("A")) : \A a \in 1..3 :
            LET node == NodesOf("A")[j]
                seg == node.v[a][1]
                curr == SourceKey(a, node.f)
                next == SourceKey(a, node.f + node.d[1])
            IN  /\ seg.r = <<curr.co[2], Some(next.co[2])>>
                /\ IF curr.interpolation = "BEZIER"
                   THEN SegmentAsBezier(seg, curr, next)
                   ELSE seg.b = NoneV /\ seg.c # None

\* One node with a flat bezier segment whose handles are not flat, a bezier
\* segment that is not flat and a segment that is not bezier.
C9_Witness ==
    /\ ActionOk
    /\ Len(NodesOf("A")) = 1
    /\ \E a, b, c \in 1..3 :
          LET node == NodesOf("A")[1]
              flat == SourceKey(a, node.f)
          IN  /\ flat.interpolation = "BEZIER"
              /\ flat.handle_right[2] # flat.co[2]
              /\ node.v[a][1].c = "line"
              /\ node.v[a][1].r[2][1] # node.v[a][1].r[1]
              /\ node.v[b][1].b # NoneV
              /\ node.v[c][1].c = "back"

Kinds == {"pos", "rot", "scl"}

PropOfKind(kind) ==
    CASE kind = "pos" -> "location"
      [] kind = "rot" -> "rotation_quaternion"
      [] kind = "scl" -> "scale"

Names == {act[i].data_path.name : i \in 1..Len(act)}

\* The rounded frames of the keyframes of the channels of one motion.
MotionFramesOf(name, kind) ==
    UNION {{norm(Points(i)[j].co[1]) : j \in 1..Len(Points(i))} :
              i \in ChannelsOf(Path(name, PropOfKind(kind)))}

\* The positions in an object's node list of the nodes of one kind.
NodesOfKind(name, kind) ==
    {j \in 1..Len(NodesOf(name)) : NodesOf(name)[j].k = kind}

\* The first channel of a motion in the order of act.fcurves.
FirstChannel(name, kind) == Min(ChannelsOf(Path(name, PropOfKind(kind))))

\* C7 as stated: the node list of every object is in ascending order of f,
\* also when the object has channels of more than one motion kind.
C7_ObjectNodesAscending ==
    ActionOk =>
        \A name \in Names : \A i, j \in 1..Len(NodesOf(name)) :
            i < j => NodesOf(name)[i].f <= NodesOf(name)[j].f

\* C7 amended: within the node list of an object the nodes of one motion
\* kind are in strictly ascending order of f; the nodes of different kinds
\* are not ordered by frame: the list is the concatenation of the lists of
\* the kinds, in the order in which the kinds first occur among the channels.
C7_KindNodesAscending ==
    ActionOk =>
        \A name \in Names : \A i, j \in 1..Len(NodesOf(name)) :
            i < j =>
                LET m == NodesOf(name)[i]
                    n == NodesOf(name)[j]
                IN  IF m.k = n.k THEN m.f < n.f
                    ELSE FirstChannel(name, m.k) < FirstChannel(name, n.k)

\* An object with two nodes of one kind followed by a node of another kind
\* at an earlier frame.
C7_Witness ==
    /\ ActionOk
    /\ \E name \in Names : \E i, j, l \in 1..Len(NodesOf(name)) :
          /\ i < j /\ j < l
          /\ NodesOf(name)[i].k = NodesOf(name)[j].k
          /\ NodesOf(name)[j].k # NodesOf(name)[l].k
          /\ NodesOf(name)[l].f < NodesOf(name)[j].f

MergedCount(name) ==
    Cardinality(MotionFramesOf(name, "pos"))
        + Cardinality(MotionFramesOf(name, "rot"))
        + Cardinality(MotionFramesOf(name, "scl"))

AllFrames(name) == UNION {MotionFramesOf(name, kind) : kind \in Kinds}

EmittedCount(n) == IF n = 0 THEN 0 ELSE n - 1

\* The frames of the nodes of one kind are those of the motion without the
\* greatest, each once.
KindEmitted(name, kind) ==
    LET frames == MotionFramesOf(name, kind)
        js == NodesOfKind(name, kind)
    IN  /\ Cardinality(js) = EmittedCount(Cardinality(frames))
        /\ {NodesOf(name)[j].f : j \in js} =
              IF frames = {} THEN {} ELSE frames \ {Max(frames)}

\* C8 as stated: for every object the node with the greatest frame among the
\* object's merged nodes is excluded and every other merged node is emitted:
\* an object with n merged nodes has n - 1 output nodes.
C8_LastNodePerObject ==
    ActionOk =>
        \A name \in Names :
            MergedCount(name) > 0 =>
                /\ Len(NodesOf(name)) = MergedCount(name) - 1
                /\ {NodesOf(name)[j].f : j \in 1..Len(NodesOf(name))} =
                      AllFrames(name) \ {Max(AllFrames(name))}

\* C8 amended: for every object and motion kind the node with the greatest
\* frame among the merged nodes of that kind is excluded and every other
\* merged node of the kind is emitted: an object whose motions have n1, n2,
\* n3 merged nodes has (n1 - 1) + (n2 - 1) + (n3 - 1) output nodes, counting
\* 0 for a motion without nodes.
C8_LastNodePerMotion ==
    ActionOk =>
        \A name \in Names :
            /\ \A kind \in Kinds : KindEmitted(name, kind)
            /\ Len(NodesOf(name)) =
                  EmittedCount(Cardinality(MotionFramesOf(name, "pos")))
                    + EmittedCount(Cardinality(MotionFramesOf(name, "rot")))
                    + EmittedCount(Cardinality(MotionFramesOf(name, "scl")))

\* An object with two motions of at least two merged nodes each.
C8_Witness ==
    /\ ActionOk
    /\ \E name \in Names : \E k1, k2 \in Kinds :
          /\ k1 # k2
          /\ Cardinality(MotionFramesOf(name, k1)) = 3
          /\ Cardinality(MotionFramesOf(name, k2)) = 2
          /\ Len(NodesOf(name)) = 3

\* The rounded frames of the keyframes of the recognised channels.
RecognisedFrames ==
    UNION {{norm(Points(i)[j].co[1]) : j \in 1..Len(Points(i))} :
              i \in {c \in 1..Len(act) : Recognised(c)}}

RangeOfFrames ==
    ActionOk =>
        /\ RecognisedFrames # {}
        /\ actEx.range = <<Min(RecognisedFrames), Max(RecognisedFrames)>>
        /\ actEx.range[1] <= actEx.range[2]

\* C10 as stated: export_action fails with the empty-action error when no
\* channel contributes a keyframe (no channels, channels without keyframe
\* points, only channels that are not location/rotation_quaternion/scale);
\* when it returns, range is [min, max] of the rounded frames of the
\* keyframes of the recognised channels, with start <= end.
C10_EmptyActionFails ==
    ActionRan =>
        /\ RecognisedFrames = {} =>
              actEx.status = "ValueError: Failed to export an empty action"
        /\ RangeOfFrames

\* C10 amended: when no location/rotation_quaternion/scale channel has a
\* keyframe, export_action fails with the empty-action error unless a channel
\* path ends with rotation_euler, and with the Euler error if one does; when
\* it returns, range is [min, max] of the rounded frames of the keyframes of
\* the recognised channels, with start <= end.
C10_EmptyActionFailsUnlessEuler ==
    ActionRan =>
        /\ RecognisedFrames = {} =>
              actEx.status =
                  IF \E i \in 1..Len(act) : Euler(i)
                  THEN "ValueError: A quaternion rotation was expected, not Euler angles"
                  ELSE "ValueError: Failed to export an empty action"
        /\ RangeOfFrames

\* The empty-action error on an action with a keyed channel of another
\* property and a recognised channel without keyframes.
C10_Witness ==
    /\ actEx.status = "ValueError: Failed to export an empty action"
    /\ \E i, j \in 1..Len(act) :
          /\ ~Recognised(i) /\ Points(i) # <<>>
          /\ Recognised(j) /\ Points(j) = <<>>

(***************************************************************************)
(*                             Export.execute                              *)
(***************************************************************************)
check_selection(to_export, context) ==
    IF context.mode # "OBJECT" THEN FALSE
    ELSE CASE to_export = "MESH" ->
                 context.active_object /\ context.data # None /\ context.data = "Mesh"
           [] to_export = "ACTION" ->
                 context.active_object /\ context.action
           [] to_export = "SKELETON" ->
                 context.active_object /\ context.data # None
                    /\ context.data = "Armature"
           [] OTHER -> TRUE

\* An exception raised by the export leaves execute.
export_never_raised(ex) == FALSE

export_raised(ex) == ex.status # "ok"

\* json.dumps(ex, indent=indent): the text of the export named by to_export.
dumps(to_export, enable_indent) ==
    [of |-> to_export, indent |-> IF enable_indent THEN Some(4) ELSE NoneV]

\* execute up to the return of check_selection.
CheckSelection ==
    /\ op.pc = "execute"
    /\ op' = IF ~check_selection(op.to_export, op.context)
             THEN [op EXCEPT !.pc = "returned", !.result = "CANCELLED",
                             !.reports = Append(@, "WARNING")]
             ELSE [op EXCEPT !.pc = "selected"]
    /\ UNCHANGED <<me, meshEx, act, actEx, skeleton, skelEx>>

\* What execute does with the export's outcome: it goes on, or the error
\* leaves execute.
after_export(ex) ==
    IF export_raised(ex)
    THEN [op EXCEPT !.pc = "raised", !.result = ex.status]
    ELSE [op EXCEPT !.pc = "exported"]

\* The call of the selected export.
RunExport ==
    /\ op.pc = "selected"
    /\ CASE op.to_export = "MESH" ->
              /\ meshEx' = export_mesh(me)
              /\ op' = after_export(export_mesh(me))
              /\ UNCHANGED <<actEx, skelEx>>
         [] op.to_export = "ACTION" ->
              /\ actEx' = export_action(act)
              /\ op' = after_export(export_action(act))
              /\ UNCHANGED <<meshEx, skelEx>>
         [] op.to_export = "SKELETON" ->
              /\ skelEx' = export_skeleton(skeleton)
              /\ op' = after_export(export_skeleton(skeleton))
              /\ UNCHANGED <<meshEx, actEx>>
         [] OTHER ->
              /\ op' = [op EXCEPT !.pc = "exported"]
              /\ UNCHANGED <<meshEx, actEx, skelEx>>
    /\ UNCHANGED <<me, act, skeleton>>

\* write_file(self.filepath, json.dumps(ex, indent=indent))
WriteFile ==
    /\ op.pc = "exported"
    /\ op' = [op EXCEPT !.pc = "written",
                        !.file = Some(dumps(op.to_export, op.enable_indent))]
    /\ UNCHANGED <<me, meshEx, act, actEx, skeleton, skelEx>>

\* The report of the saved file and return {"FINISHED"}.
Finish ==
    /\ op.pc = "written"
    /\ op' = [op EXCEPT !.pc = "returned", !.result = "FINISHED",
                        !.reports = Append(@, "INFO")]
    /\ UNCHANGED <<me, meshEx, act, actEx, skeleton, skelEx>>

(***************************************************************************)
(* The scenes execute is called in: the mode, the active object and its    *)
(* data, and the mesh, action and armature the exports would read.         *)
(***************************************************************************)
Contexts ==
    { [mode |-> m, active_object |-> o.active_object, data |-> o.data,
       action |-> o.action] :
        m \in {"OBJECT", "EDIT_MESH"},
        o \in { [active_object |-> FALSE, data |-> None, action |-> FALSE],
                [active_object |-> TRUE, data |-> None, action |-> FALSE],
                [active_object |-> TRUE, data |-> "Mesh", action |-> FALSE],
                [active_object |-> TRUE, data |-> "Mesh", action |-> TRUE],
                [active_object |-> TRUE, data |-> "Armature", action |-> TRUE] } }

SceneMesh(faces) ==
    [vertices |->
        << [co |-> <<0, 0, 0>>, normal |-> Normal_Z, groups |-> <<>>],
           [co |-> <<One, 0, 0>>, normal |-> Normal_Z, groups |-> <<>>],
           [co |-> <<One, One, 0>>, normal |-> Normal_Z, groups |-> <<>>],
           [co |-> <<0, One, 0>>, normal |-> Normal_Z, groups |-> <<>>] >>,
     faces |-> faces,
     vertex_groups |-> <<"ga", "gb">>,
     face_maps |-> <<"s0", "s1">>]

\* A mesh of one triangle, a mesh with a two-vertex face and a mesh whose
\* loops have no index.
SceneMeshes ==
    {SceneMesh(<<Triangle(<<0, 1, 2>>, <<<<0, 0>>, <<One, 0>>, <<One, One>>>>, -1, 0)>>)}
        \cup {SceneMesh(<<f>>) : f \in BadFaces}

Channel(path, idx, frames) ==
    [data_path |-> path, array_index |-> idx,
     keyframe_points |-> [j \in 1..Len(frames) |-> DefaultKey(frames[j], idx)]]

\* No channel; a position keyed at frames 0 and 10; the same with an Euler
\* rotation channel; a position whose axes are keyed at different frames.
SceneActions ==
    { <<>>,
      [i \in 1..3 |-> Channel(KeyPath, i - 1, <<0, 10 * One>>)],
      [i \in 1..3 |-> Channel(KeyPath, i - 1, <<0, 10 * One>>)]
          \o <<Channel(Path("A", "rotation_euler"), 0, <<0>>)>>,
      <<Channel(KeyPath, 0, <<0, 10 * One>>), Channel(KeyPath, 1, <<0>>),
        Channel(KeyPath, 2, <<0>>)>> }

Bone(name, parent) ==
    [name |-> name, parent |-> parent, head_local |-> <<0, 0, 0>>,
     tail_local |-> <<0, 0, One>>, rot |-> <<One, 0, 0, 0>>]

SceneSkeletons ==
    { <<Bone("b0", None)>>, <<Bone("b0", None), Bone("b1", "b0")>> }

InitExecute ==
    /\ me \in SceneMeshes
    /\ act \in SceneActions
    /\ skeleton \in SceneSkeletons
    /\ meshEx = MeshNotRun
    /\ actEx = ActionNotRun
    /\ skelEx = SkeletonNotRun
    /\ \E to_export \in {"MESH", "ACTION", "SKELETON"}, enable_indent \in BOOLEAN,
          context \in Contexts :
          op = [OperatorIdle EXCEPT !.to_export = to_export,
                                    !.enable_indent = enable_indent,
                                    !.context = context,
                                    !.pc = "execute"]

NextExecute ==
    \/ CheckSelection
    \/ RunExport
    \/ WriteFile
    \/ Finish

SpecExecute == InitExecute /\ [][NextExecute]_vars

(***************************************************************************)
(*                        Properties of Export.execute                     *)
(***************************************************************************)
\* What the export selected by to_export left.
SelectedEx ==
    CASE op.to_export = "MESH" -> meshEx
      [] op.to_export = "ACTION" -> actEx
      [] op.to_export = "SKELETON" -> skelEx

NoExportRan ==
    /\ meshEx = MeshNotRun
    /\ actEx = ActionNotRun
    /\ skelEx = SkeletonNotRun

\* The selection execute was called with passes the operator's test.
Selected ==
    /\ op.context.mode = "OBJECT"
    /\ op.context.active_object
    /\ \/ op.to_export = "MESH" /\ op.context.data = "Mesh"
       \/ op.to_export = "ACTION" /\ op.context.action
       \/ op.to_export = "SKELETON" /\ op.context.data = "Armature"

FileWritten == op.file # <<>>

\* C11: the file is written only after the selected export returned: a
\* failed check_selection returns CANCELLED with no export run and no file;
\* an export that raises leaves execute with its error and no file; FINISHED
\* is returned only with the file written, and the file exists only when the
\* selection passed and the selected export returned.
C11_WriteAfterExport ==
    /\ FileWritten =>
          /\ op.pc \in {"written", "returned"}
          /\ Selected
          /\ SelectedEx.status = "ok"
    /\ (op.pc \in {"selected", "raised", "exported", "written"}) => Selected
    /\ (op.pc = "returned" /\ ~Selected) =>
          /\ op.result = "CANCELLED"
          /\ NoExportRan
          /\ ~FileWritten
    /\ op.pc = "raised" =>
          /\ SelectedEx.status \notin {"ok", "not run"}
          /\ op.result = SelectedEx.status
          /\ ~FileWritten
    /\ op.result = "FINISHED" =>
          /\ op.pc = "returned"
          /\ FileWritten
          /\ SelectedEx.status = "ok"
    /\ op.result = "CANCELLED" => ~Selected /\ ~FileWritten

\* The export raised the Euler error and execute was left without a file.
C11_Witness ==
    /\ op.pc = "raised"
    /\ op.result = "ValueError: A quaternion rotation was expected, not Euler angles"
    /\ ~FileWritten

(***************************************************************************)
(*              Completeness of the nodes export_action emits              *)
(***************************************************************************)
\* The rounded frames at which axis a of the position motion is keyed.
AxisFrames(a) ==
    IF ChannelOfAxis(a) = 0 THEN {}
    ELSE {norm(Points(ChannelOfAxis(a))[j].co[1]) :
             j \in 1..Len(Points(ChannelOfAxis(a)))}

\* The position motion has two nodes or more and one of its axes has no
\* keyframe at the frame of one of them.
MissingAxis ==
    /\ Cardinality(MotionFramesOf("A", "pos")) >= 2
    /\ \E a \in 1..3 : AxisFrames(a) # MotionFramesOf("A", "pos")

\* A node with a duration, three segments, each with both ends of r taken
\* from the keyframes of its axis at the node and at the next node, and no
\* handles left.
CompleteNode(node) ==
    /\ node.d # NoneV
    /\ node.d[1] >= ACTION_PRECISION
    /\ node.f + node.d[1] \in MotionFramesOf("A", "pos")
    /\ \A f \in MotionFramesOf("A", "pos") : ~(node.f < f /\ f < node.f + node.d[1])
    /\ DOMAIN node.v = 1..3
    /\ \A a \in 1..3 :
          /\ node.v[a] # NoneV
          /\ node.v[a][1].handles = NoneV
          /\ node.f \in AxisFrames(a)
          /\ node.f + node.d[1] \in AxisFrames(a)
          /\ node.v[a][1].r = <<SourceKey(a, node.f).co[2],
                                Some(SourceKey(a, node.f + node.d[1]).co[2])>>

\* C12 as stated: for any input, also one whose axes are keyed at different
\* frames, export_action emits nodes, each with a duration d >= 1e-6 and
\* three segments (four for a rotation) with r = [value of the axis at the
\* node, value of the axis at the next node], none of them null.
C12_EmittedNodesComplete ==
    ActionRan =>
        /\ actEx.status # "TypeError: 'NoneType' object is not subscriptable"
        /\ ActionOk => \A j \in 1..Len(NodesOf("A")) : CompleteNode(NodesOf("A")[j])

\* What the code does: the nodes of an export that returns are complete, and
\* the export of a motion with an axis that has no keyframe at the frame of
\* one of its nodes ends with a TypeError, no node emitted.
C12_MissingAxisRaises ==
    ActionRan =>
        /\ ActionOk => \A j \in 1..Len(NodesOf("A")) : CompleteNode(NodesOf("A")[j])
        /\ MissingAxis <=>
              actEx.status = "TypeError: 'NoneType' object is not subscriptable"
        /\ actEx.status = "TypeError: 'NoneType' object is not subscriptable" =>
              actEx.objects = <<>>

=============================================================================
